---- MODULE Spec2Model ----
(***************************************************************************)
(* Model of src/avatar.py: main, extract_avatars_from_grid and             *)
(* detect_circles_alternative.                                             *)
(*                                                                         *)
(* Conventions.                                                            *)
(*  - A float value f returned by a detector (centre x, centre y, radius)  *)
(*    is held as the integer 2*f ("halves"), so that .5 values and         *)
(*    numpy's round-half-to-even are representable.                        *)
(*  - After line 55 a circle is a record [x, y, r] of unsigned 16-bit      *)
(*    values; arithmetic between them wraps modulo 2^16 as numpy scalar    *)
(*    arithmetic does.                                                     *)
(*  - None (no circles) is the empty sequence <<>>: HoughCircles and       *)
(*    detect_circles_alternative never return an empty array.              *)
(*  - An image buffer is not stored pixel by pixel: an avatar file is the  *)
(*    record of the values that determine its pixels, and OutputPixel      *)
(*    computes a pixel from them, step by step as lines 114-131 do.        *)
(***************************************************************************)
EXTENDS Integers, Sequences, FiniteSets

VARIABLES input, pc, circles, calls, circle_list, rows, anchors,
          sorted_circles, idx, box, files, result, printed

vars == <<input, pc, circles, calls, circle_list, rows, anchors,
          sorted_circles, idx, box, files, result, printed>>

\* ------------------------------------------------------------------ bounds
MaxHough == 2
MaxContours == 4
ImgWidth == 320
ImgHeight == 200

\* ------------------------------------------------------- program constants
minRadius == 40
maxRadius == 70
minDist == 80
y_threshold == 30
MinArea == 1000
AltMinRadius == 40
AltMaxRadius == 70
U16 == 65536

\* --------------------------------------------------------------- numerics
Max(a, b) == IF b > a THEN b ELSE a
Min(a, b) == IF b < a THEN b ELSE a

\* numpy uint16 scalar arithmetic
Sub16(a, b) == (a - b + U16) % U16
Add16(a, b) == (a + b) % U16
Mul16(a, b) == (a * b) % U16

\* np.around on a float held in halves: round half to even
Around(h) ==
    LET q == h \div 2
    IN  IF h % 2 = 0 THEN q
        ELSE IF q % 2 = 0 THEN q ELSE q + 1

\* np.uint16(np.around(.)) of one detected circle
RoundCircle(f) ==
    [x |-> Around(f.x) % U16, y |-> Around(f.y) % U16, r |-> Around(f.r) % U16]

RoundCircles(fs) == [k \in 1..Len(fs) |-> RoundCircle(fs[k])]

\* ------------------------------------------------------ fallback detector
\* circularity > 0.7 with circularity = 4*pi*area/perimeter^2, pi taken as
\* 355/113 (the inputs below are far from the cutoff)
CircularEnough(c) == 4 * 355 * c.area * 10 > 7 * 113 * c.perimeter * c.perimeter

RadiusInclusive(c) == 2 * AltMinRadius <= c.radius /\ c.radius <= 2 * AltMaxRadius

\* line 168: 40 < radius < 70, the radius held in halves
RadiusInRange(c) == 2 * AltMinRadius < c.radius /\ c.radius < 2 * AltMaxRadius

TooSmall(c) == c.area < MinArea

\* the loop of lines 157-169 over the first n contours
RECURSIVE AltLoop(_, _)
AltLoop(cs, n) ==
    IF n = 0 THEN <<>>
    ELSE LET c == cs[n]
             before == AltLoop(cs, n - 1)
         IN  IF TooSmall(c) THEN before
             ELSE IF CircularEnough(c) /\ RadiusInRange(c)
                  THEN Append(before, [x |-> c.x, y |-> c.y, r |-> c.radius])
                  ELSE before

detect_circles_alternative(cs) == AltLoop(cs, Len(cs))

\* ---------------------------------------------------------------- sequencer
LessYX(a, b) == a.y < b.y \/ (a.y = b.y /\ a.x < b.x)
LessX(a, b) == a.x < b.x

\* the comparison of two sort keys: "yx" is (c[1], c[0]), "x" is c[0]
Less(a, b, key) == IF key = "yx" THEN LessYX(a, b) ELSE LessX(a, b)

\* one step of a stable sort: c goes after every element not greater than it
Insert(t, c, key) ==
    LET k == Cardinality({i \in 1..Len(t) : ~Less(c, t[i], key)})
    IN  SubSeq(t, 1, k) \o <<c>> \o SubSeq(t, k + 1, Len(t))

\* list.sort(key=...): stable
StableSort(s, key) ==
    LET F[n \in 0..Len(s)] == IF n = 0 THEN <<>> ELSE Insert(F[n - 1], s[n], key)
    IN  F[Len(s)]

Unsorted(s) == s

\* line 63
SortCircleList(s) == StableSort(s, "yx")

\* lines 78 and 85
SortRow(row) == StableSort(row, "x")

NoRow == -1

GroupInit == [rows |-> <<>>, current_row |-> <<>>, row_y |-> NoRow, anchors |-> <<>>]

SameRow(circle, row_y) == row_y = NoRow \/ Sub16(circle.y, row_y) < y_threshold

\* the body of the loop of lines 71-81; anchors records each value row_y takes
GroupStep(st, circle) ==
    IF SameRow(circle, st.row_y)
    THEN [rows |-> st.rows,
          current_row |-> Append(st.current_row, circle),
          row_y |-> IF st.row_y = NoRow THEN circle.y ELSE st.row_y,
          anchors |-> IF st.row_y = NoRow THEN Append(st.anchors, circle.y)
                      ELSE st.anchors]
    ELSE [rows |-> Append(st.rows, SortRow(st.current_row)),
          current_row |-> <<circle>>,
          row_y |-> circle.y,
          anchors |-> Append(st.anchors, circle.y)]

GroupLoop(cl) ==
    LET G[n \in 0..Len(cl)] == IF n = 0 THEN GroupInit ELSE GroupStep(G[n - 1], cl[n])
    IN  G[Len(cl)]

DropLastRow(st) == st.rows

\* lines 84-86
CloseLastRow(st) ==
    IF st.current_row # <<>> THEN Append(st.rows, SortRow(st.current_row)) ELSE st.rows

\* lines 89-91
RECURSIVE Flatten(_)
Flatten(rs) == IF rs = <<>> THEN <<>> ELSE Head(rs) \o Flatten(Tail(rs))

\* --------------------------------------------------------------- compositor
\* lines 102-105; max and min compare the wrapped uint16 values
BoundingBox(c, w, h) ==
    [x_min |-> Max(0, Sub16(c.x, c.r)),
     x_max |-> Min(w, Add16(c.x, c.r)),
     y_min |-> Max(0, Sub16(c.y, c.r)),
     y_max |-> Min(h, Add16(c.y, c.r))]

\* the length of the numpy slice a[lo:hi] of an axis of length n
SliceLen(lo, hi, n) == Max(0, Min(hi, n) - Min(lo, n))

\* line 108: the shape of img[y_min:y_max, x_min:x_max]
CropSize(b, w, h) ==
    <<SliceLen(b.x_min, b.x_max, w), SliceLen(b.y_min, b.y_max, h)>>

\* line 112: cv2.cvtColor raises on an empty array
CvtColorRaises(crop) == crop[1] = 0 \/ crop[2] = 0

\* line 115
OutputSize(c) == <<Mul16(c.r, 2), Mul16(c.r, 2)>>

\* lines 124-125
PastePosition(c, b) ==
    <<Sub16(c.r, Sub16(c.x, b.x_min)), Sub16(c.r, Sub16(c.y, b.y_min))>>

FileIndexFromZero(i) == i

\* line 96: enumerate(sorted_circles, 1), i the 0-based position
FileIndex(i) == i + 1

\* the avatar written by one iteration of the loop of lines 96-136
Avatar(i, c, b, crop, kind) ==
    [name |-> FileIndex(i), circle |-> c, size |-> OutputSize(c), box |-> b,
     crop |-> crop, paste |-> PastePosition(c, b), kind |-> kind]

\* the alpha of a source pixel after lines 20-26: cvtColor(BGR2BGRA) makes a
\* 3-channel image opaque, a 4-channel image keeps its own alpha
SrcAlpha(kind, sx, sy) ==
    IF kind = "bgr" THEN 255
    ELSE IF kind = "bgra_clear" THEN 0
    ELSE (sx + sy) % 256

Blank == <<-1, -1>>

\* line 116: Image.new('RGBA', size, (0, 0, 0, 0))
NewPixel == [src |-> Blank, alpha |-> 0]

\* line 128: paste copies the four channels of the crop, clipped to the output
Paste(av, p, i, j) ==
    LET px == av.paste[1]
        py == av.paste[2]
    IN  IF /\ px <= i /\ i < px + av.crop[1]
           /\ py <= j /\ j < py + av.crop[2]
        THEN LET sx == av.box.x_min + (i - px)
                 sy == av.box.y_min + (j - py)
             IN  [src |-> <<sx, sy>>, alpha |-> SrcAlpha(av.kind, sx, sy)]
        ELSE p

\* lines 119-121: ellipse([x0, y0, x1, y1], fill=255) on a mask of zeros; a
\* pixel is filled when it lies in the ellipse inscribed in the box (doubled
\* coordinates keep the centre integral)
Ellipse(i, j, x0, y0, x1, y1) ==
    LET a == x1 - x0
        b == y1 - y0
        X == 2 * (i - x0) - a
        Y == 2 * (j - y0) - b
    IN  IF /\ x0 <= i /\ i <= x1 /\ y0 <= j /\ j <= y1
           /\ X * X * b * b + Y * Y * a * a <= a * a * b * b
        THEN 255 ELSE 0

MaskOutput(av, i, j) == Ellipse(i, j, 0, 0, av.size[1] - 1, av.size[2] - 1)

KeepAlpha(p, m) == p

\* line 131: putalpha replaces the alpha channel
PutAlpha(p, m) == [p EXCEPT !.alpha = m]

\* the pixel (i, j) of the saved avatar
OutputPixel(av, i, j) == PutAlpha(Paste(av, NewPixel, i, j), MaskOutput(av, i, j))

\* ------------------------------------------------------------------ inputs
FC(x, y, r) == [x |-> x, y |-> y, r |-> r]

\* what HoughCircles may return for an image, in halves: centres in the
\* image, radii in [minRadius, maxRadius]
HoughCands ==
    { FC(200, 200, 80),      \* (100, 100, 40): inside
      FC(401, 259, 91),      \* (200.5, 129.5, 45.5): rounds to (200, 130, 46)
      FC(200, 200, 140),     \* (100, 100, 70): inside
      FC(60, 200, 80),       \* (30, 100, 40): x < r
      FC(200, 40, 80),       \* (100, 20, 40): y < r
      FC(560, 260, 140),     \* (280, 130, 70): cut by the right edge
      FC(400, 340, 80) }     \* (200, 170, 40): cut by the bottom edge

CT(a, p, x, y, r, s) ==
    [area |-> a, perimeter |-> p, x |-> x, y |-> y, radius |-> r, shape |-> s]

\* external contours an image may hold: area, perimeter, and the minimum
\* enclosing circle in halves
ContourCands ==
    { CT(5153, 255, 200, 200, 81, "disc"),     \* (100, 100, 40.5)
      CT(3181, 231, 200, 199, 90, "top"),      \* half disc, (100, 99.5, 45)
      CT(3181, 231, 200, 201, 90, "bottom"),   \* half disc, (100, 100.5, 45)
      CT(6362, 283, 400, 258, 90, "disc"),     \* (200, 129, 45)
      CT(6362, 283, 400, 260, 90, "disc"),     \* (200, 130, 45)
      CT(6362, 283, 584, 262, 90, "disc"),     \* (292, 131, 45): right edge
      CT(6362, 283, 584, 220, 90, "disc"),     \* (292, 110, 45): right edge
      CT(5500, 270, 60, 200, 90, "disc"),      \* (30, 100, 45): cut at x = 0
      CT(5153, 255, 100, 100, 81, "disc"),     \* (50, 50, 40.5)
      CT(700, 94, 300, 100, 30, "disc"),       \* (150, 50, 15): small
      CT(5027, 251, 560, 90, 80, "disc"),      \* (280, 45, 40.0)
      CT(15394, 440, 320, 200, 140, "disc"),   \* (160, 100, 70.0)
      CT(3000, 400, 500, 300, 100, "blob") }   \* (250, 150, 50): notched

SeqsUpTo(S, n) == UNION {[1..m -> S] : m \in 0..n}

Dist2(a, b) == (a.x - b.x) * (a.x - b.x) + (a.y - b.y) * (a.y - b.y)

\* minDist (line 42): accepted centres are at least minDist apart
FarApart(s) ==
    \A i, j \in 1..Len(s) : i < j => Dist2(s[i], s[j]) >= (2 * minDist) * (2 * minDist)

\* two connected regions of one image do not overlap: their enclosing circles
\* are apart, or they are the two halves of a disc split by a slit
Disjoint(a, b) ==
    \/ Dist2(a, b) >= (a.radius + b.radius) * (a.radius + b.radius)
    \/ a.shape = "top" /\ b.shape = "bottom" /\ a.x = b.x /\ a.y < b.y
    \/ b.shape = "top" /\ a.shape = "bottom" /\ a.x = b.x /\ b.y < a.y

Separate(s) == \A i, j \in 1..Len(s) : i < j => Disjoint(s[i], s[j])

\* lines 45-46: radii are within [minRadius, maxRadius]
RadiiInRange(s) ==
    \A i \in 1..Len(s) : 2 * minRadius <= s[i].r /\ s[i].r <= 2 * maxRadius

HoughLists(n) == {s \in SeqsUpTo(HoughCands, n) : FarApart(s) /\ RadiiInRange(s)}
ContourLists(n) == {s \in SeqsUpTo(ContourCands, n) : Separate(s)}

Kinds == {"bgr", "bgra_clear", "bgra_grad"}

ImageFile(k, h, c) ==
    [exists |-> TRUE, readable |-> TRUE, kind |-> k, hough |-> h, contours |-> c]

Missing ==
    [exists |-> FALSE, readable |-> FALSE, kind |-> "bgr", hough |-> <<>>,
     contours |-> <<>>]

Corrupt ==
    [exists |-> TRUE, readable |-> FALSE, kind |-> "bgr", hough |-> <<>>,
     contours |-> <<>>]

\* the files main may find at image_path
Inputs ==
    {Missing, Corrupt}
    \cup {ImageFile("bgr", h, c) :
            h \in HoughLists(MaxHough) \ {<<>>}, c \in ContourLists(1)}
    \cup {ImageFile("bgr", <<>>, c) : c \in ContourLists(MaxContours)}

\* files holding at most one detection of each kind, of every pixel format
SingleInputs ==
    {Missing, Corrupt}
    \cup {ImageFile(k, h, c) :
            k \in Kinds, h \in HoughLists(1), c \in ContourLists(1)}

NoBox == [x_min |-> 0, x_max |-> 0, y_min |-> 0, y_max |-> 0]

Start(f) ==
    /\ input = f
    /\ pc = "main"
    /\ circles = <<>>
    /\ calls = <<>>
    /\ circle_list = <<>>
    /\ rows = <<>>
    /\ anchors = <<>>
    /\ sorted_circles = <<>>
    /\ idx = 0
    /\ box = NoBox
    /\ files = <<>>
    /\ result = "none"
    /\ printed = "none"

Init == \E f \in Inputs : Start(f)

InitSingle == \E f \in SingleInputs : Start(f)

\* ----------------------------------------------------------------- actions
AlwaysFallback(cs) == TRUE

\* line 49: circles is None
NeedsFallback(cs) == cs = <<>>

ReportAlways(res) == TRUE

\* line 194: if success
Truthy(res) == res = "True"

\* lines 175-193: main checks that the file exists, then calls the extractor
Main ==
    /\ pc = "main"
    /\ IF input.exists
       THEN pc' = "load" /\ printed' = printed
       ELSE pc' = "done" /\ printed' = "notfound"
    /\ UNCHANGED <<input, circles, calls, circle_list, rows, anchors,
                   sorted_circles, idx, box, files, result>>

\* lines 17-35: imread, ValueError when it returns None, colour conversions
Load ==
    /\ pc = "load"
    /\ IF input.readable
       THEN pc' = "hough" /\ result' = result
       ELSE pc' = "except" /\ result' = "raised"
    /\ UNCHANGED <<input, circles, calls, circle_list, rows, anchors,
                   sorted_circles, idx, box, files, printed>>

\* lines 38-49: the primary detector, and the test that sends to the fallback
HoughCircles ==
    /\ pc = "hough"
    /\ circles' = input.hough
    /\ calls' = Append(calls, "HoughCircles")
    /\ pc' = IF NeedsFallback(circles') THEN "alternative" ELSE "branch"
    /\ UNCHANGED <<input, circle_list, rows, anchors, sorted_circles, idx, box,
                   files, result, printed>>

\* lines 50-51
Alternative ==
    /\ pc = "alternative"
    /\ circles' = detect_circles_alternative(input.contours)
    /\ calls' = Append(calls, "detect_circles_alternative")
    /\ pc' = "branch"
    /\ UNCHANGED <<input, circle_list, rows, anchors, sorted_circles, idx, box,
                   files, result, printed>>

\* lines 53-93: round, sort, group into rows, flatten
Sequence ==
    /\ pc = "branch"
    /\ circles # <<>>
    /\ LET rounded == RoundCircles(circles)
           cl == SortCircleList(rounded)
           st == GroupLoop(cl)
           rs == CloseLastRow(st)
       IN  /\ circles' = rounded
           /\ circle_list' = cl
           /\ rows' = rs
           /\ anchors' = st.anchors
           /\ sorted_circles' = Flatten(rs)
    /\ idx' = 0
    /\ pc' = "loop"
    /\ UNCHANGED <<input, calls, box, files, result, printed>>

\* lines 138-140
NoCircles ==
    /\ pc = "branch"
    /\ circles = <<>>
    /\ result' = "False"
    /\ pc' = "returned"
    /\ UNCHANGED <<input, circles, calls, circle_list, rows, anchors,
                   sorted_circles, idx, box, files, printed>>

\* lines 96-136: one iteration of the loop; idx counts the iterations begun
Composite ==
    /\ pc = "loop"
    /\ idx < Len(sorted_circles)
    /\ LET c == sorted_circles[idx + 1]
           b == BoundingBox(c, ImgWidth, ImgHeight)
           crop == CropSize(b, ImgWidth, ImgHeight)
       IN  /\ box' = b
           /\ IF CvtColorRaises(crop)
              THEN /\ result' = "raised"
                   /\ pc' = "except"
                   /\ files' = files
              ELSE /\ files' = Append(files, Avatar(idx, c, b, crop, input.kind))
                   /\ pc' = "loop"
                   /\ result' = result
    /\ idx' = idx + 1
    /\ UNCHANGED <<input, circles, calls, circle_list, rows, anchors,
                   sorted_circles, printed>>

\* lines 142-143
Finish ==
    /\ pc = "loop"
    /\ idx = Len(sorted_circles)
    /\ result' = "True"
    /\ pc' = "returned"
    /\ UNCHANGED <<input, circles, calls, circle_list, rows, anchors,
                   sorted_circles, idx, box, files, printed>>

\* lines 193-195
MainReturn ==
    /\ pc = "returned"
    /\ printed' = IF Truthy(result) THEN "success" ELSE printed
    /\ pc' = "done"
    /\ UNCHANGED <<input, circles, calls, circle_list, rows, anchors,
                   sorted_circles, idx, box, files, result>>

\* lines 196-197
MainExcept ==
    /\ pc = "except"
    /\ printed' = "error"
    /\ pc' = "done"
    /\ UNCHANGED <<input, circles, calls, circle_list, rows, anchors,
                   sorted_circles, idx, box, files, result>>

Next ==
    \/ Main
    \/ Load
    \/ HoughCircles
    \/ Alternative
    \/ Sequence
    \/ NoCircles
    \/ Composite
    \/ Finish
    \/ MainReturn
    \/ MainExcept

Spec == Init /\ [][Next]_vars

SpecSingle == InitSingle /\ [][Next]_vars

\* ------------------------------------------------------------------ claims
\* the sequencer has run
Sequenced == circle_list # <<>>

Count(c, s) == Cardinality({k \in 1..Len(s) : s[k] = c})

Elems(s) == {s[k] : k \in 1..Len(s)}

\* the number of circles in the first r rows
RowEnd(r) ==
    LET E[n \in 0..Len(rows)] == IF n = 0 THEN 0 ELSE E[n - 1] + Len(rows[n])
    IN  E[r]

\* the row-group holding position k of the output
RowOfPos(k) == CHOOSE r \in 1..Len(rows) : RowEnd(r - 1) < k /\ k <= RowEnd(r)

\* C1: the sequencer's output has the length of its input (the rounded
\* circles of line 55) and holds every circle as many times as the input does:
\* nothing is dropped, nothing duplicated, the last open row included.
C1_Permutation ==
    Sequenced =>
        /\ Len(sorted_circles) = Len(circles)
        /\ \A c \in Elems(circles) \cup Elems(sorted_circles) :
               Count(c, sorted_circles) = Count(c, circles)

\* C1 witness: three circles, two of them equal, sequenced into two rows
C1_Witness ==
    /\ Sequenced
    /\ Len(circles) = 3
    /\ Len(rows) = 2
    /\ \E i, j \in 1..Len(circles) : i < j /\ circles[i] = circles[j]

CentreInside(c) == c.x < ImgWidth /\ c.y < ImgHeight

\* the clamped box over the integers
IntBox(c) ==
    [x_min |-> Max(0, c.x - c.r),
     x_max |-> Min(ImgWidth, c.x + c.r),
     y_min |-> Max(0, c.y - c.r),
     y_max |-> Min(ImgHeight, c.y + c.r)]

\* C4 as stated: for every circle the loop has taken whose centre is in the
\* image, the box is the integer clamp, it is non-empty and in range, and the
\* compositing step succeeded (its avatar was written).
C4_Original ==
    \A k \in 1..idx :
        CentreInside(sorted_circles[k]) =>
            /\ k = idx => box = IntBox(sorted_circles[k])
            /\ k = idx => /\ 0 <= box.x_min /\ box.x_min < box.x_max
                          /\ box.x_max <= ImgWidth
                          /\ 0 <= box.y_min /\ box.y_min < box.y_max
                          /\ box.y_max <= ImgHeight
            /\ Len(files) >= k
            /\ files[k].box = IntBox(sorted_circles[k])

\* C5 as stated: for every circle the loop has taken whose centre is in the
\* image, the crop is pasted at (r - (x - x_min), r - (y - y_min)), a pasted
\* source pixel (sx, sy) lands at (sx - x + r, sy - y + r), and the centre
\* pixel lands at (r, r).
C5_Original ==
    \A k \in 1..idx :
        LET c == sorted_circles[k]
        IN  CentreInside(c) =>
                /\ Len(files) >= k
                /\ files[k].paste = <<c.r - (c.x - IntBox(c).x_min),
                                      c.r - (c.y - IntBox(c).y_min)>>
                /\ \A i \in 0..(2 * c.r - 1) :
                       LET p == Paste(files[k], NewPixel, i, c.r)
                           q == Paste(files[k], NewPixel, c.r, i)
                       IN  /\ p.src # Blank => p.src = <<i + c.x - c.r, c.y>>
                           /\ q.src # Blank => q.src = <<c.x, i + c.y - c.r>>
                /\ Paste(files[k], NewPixel, c.r, c.r).src = <<c.x, c.y>>

FullyInside(c) ==
    /\ c.x - c.r >= 0 /\ c.x + c.r <= ImgWidth
    /\ c.y - c.r >= 0 /\ c.y + c.r <= ImgHeight

\* the pixel (i, j) of a 2r x 2r image lies in the disc inscribed in it
InDisc(i, j, r) ==
    (2 * i + 1 - 2 * r) * (2 * i + 1 - 2 * r)
        + (2 * j + 1 - 2 * r) * (2 * j + 1 - 2 * r)
    <= (2 * r - 1) * (2 * r - 1)

C7_DetectorOrder ==
    /\ calls # <<>> => calls[1] = "HoughCircles"
    /\ Len(calls) <= 2
    /\ Len(calls) = 2 => calls[2] = "detect_circles_alternative"
    /\ (calls # <<>> /\ pc # "alternative") =>
           ((Len(calls) = 2) <=> (input.hough = <<>>))
    /\ (Sequenced /\ input.hough # <<>>) =>
           /\ circles = RoundCircles(input.hough)
           /\ \A c \in Elems(circles) : Count(c, sorted_circles) = Count(c, circles)
           /\ \A k \in 1..Len(files) : files[k].circle \in Elems(circles)

\* C7 witness: the primary found circles in an image whose contours the
\* fallback would have accepted, and an avatar has been written
C7_Witness ==
    /\ input.hough # <<>>
    /\ detect_circles_alternative(input.contours) # <<>>
    /\ files # <<>>

BothEmpty ==
    /\ input.exists
    /\ input.readable
    /\ input.hough = <<>>
    /\ \A k \in 1..Len(input.contours) :
           LET c == input.contours[k]
           IN  TooSmall(c) \/ ~CircularEnough(c) \/ ~RadiusInRange(c)

\* C8: when neither detector finds a circle the extractor returns False, does
\* not raise, sequences and composites nothing, writes no file, and main ends
\* having reported neither success nor an error.
C8_NoAvatars ==
    BothEmpty =>
        /\ result \in {"none", "False"}
        /\ pc \notin {"loop", "except"}
        /\ pc \in {"returned", "done"} => result = "False"
        /\ circle_list = <<>> /\ rows = <<>> /\ sorted_circles = <<>>
        /\ idx = 0
        /\ files = <<>>
        /\ printed = "none"

\* C8 witness: main has ended on an image with contours, none of them accepted
C8_Witness ==
    /\ BothEmpty
    /\ input.contours # <<>>
    /\ Len(calls) = 2
    /\ pc = "done"

\* C9: the files written so far are avatar_1 .. avatar_n in this order, the
\* k-th composited from the k-th circle of the sequencer's output; when the
\* function returns True there is one file per detected circle.
C9_Files ==
    /\ \A k \in 1..Len(files) :
           /\ files[k].name = k
           /\ files[k].circle = sorted_circles[k]
    /\ Len(files) <= idx
    /\ result = "True" =>
           /\ Len(circles) >= 1
           /\ Len(files) = Len(circles)
           /\ Len(files) = Len(sorted_circles)
           /\ pc \in {"returned", "done"}
    /\ (pc = "done" /\ printed = "success") => result = "True"

\* C9 witness: a completed run that wrote three files
C9_Witness ==
    /\ result = "True"
    /\ Len(files) = 3
    /\ pc = "done"

AsCircle(c) == [x |-> c.x, y |-> c.y, r |-> c.radius]

AcceptedInclusive(c) ==
    /\ c.area >= MinArea
    /\ CircularEnough(c)
    /\ 2 * AltMinRadius <= c.radius /\ c.radius <= 2 * AltMaxRadius

AcceptedExclusive(c) ==
    /\ c.area >= MinArea
    /\ CircularEnough(c)
    /\ 2 * AltMinRadius < c.radius /\ c.radius < 2 * AltMaxRadius

AltReturned == pc = "branch" /\ Len(calls) = 2

\* C10 as stated: the fallback returns the enclosing circles of exactly the
\* contours with area >= 1000, circularity > 0.7 and radius in [40, 70], and
\* returns None exactly when there is none.
C10_Original ==
    AltReturned =>
        LET kept == SelectSeq(input.contours, AcceptedInclusive)
        IN  /\ circles = [k \in 1..Len(kept) |-> AsCircle(kept[k])]
            /\ (circles = <<>>) <=>
                   (\A k \in 1..Len(input.contours) :
                        ~AcceptedInclusive(input.contours[k]))

\* C10 amended: the fallback returns the enclosing circles of exactly the
\* contours with area >= 1000, circularity > 0.7 and 40 < radius < 70, and
\* returns None exactly when there is none.
C10_Amended ==
    AltReturned =>
        LET kept == SelectSeq(input.contours, AcceptedExclusive)
        IN  /\ circles = [k \in 1..Len(kept) |-> AsCircle(kept[k])]
            /\ (circles = <<>>) <=>
                   (\A k \in 1..Len(input.contours) :
                        ~AcceptedExclusive(input.contours[k]))

\* C10 witness: the fallback kept one contour and rejected two that pass the
\* area and circularity tests, one of radius exactly 40 and one of radius
\* exactly 70
C10_Witness ==
    /\ AltReturned
    /\ Len(circles) = 1
    /\ \E k \in 1..Len(input.contours) :
           /\ AcceptedInclusive(input.contours[k])
           /\ input.contours[k].radius = 2 * AltMinRadius
    /\ \E k \in 1..Len(input.contours) :
           /\ AcceptedInclusive(input.contours[k])
           /\ input.contours[k].radius = 2 * AltMaxRadius

====
